---- MODULE Spec2Model ----
(***************************************************************************)
(* A model of the pyworker Backend / Metrics engine (src/lib/backend.py,   *)
(* src/lib/metrics.py, src/lib/data_types.py).                             *)
(*                                                                         *)
(* One asyncio event loop runs everything, so every action below is one    *)
(* uninterrupted run of a task between two suspension points (await).      *)
(* asyncio.Semaphore is modelled as CPython >= 3.11 implements it: a       *)
(* counter, a FIFO of waiter futures, release() hands the permit to the    *)
(* first waiter that is not done.                                          *)
(***************************************************************************)
EXTENDS Integers, Sequences, FiniteSets, TLC

(***************************************************************************)
(* Bounds of the model.                                                    *)
(***************************************************************************)
\* number of HTTP requests the listener receives in a run
MaxRequests == 2
\* length of the replay window: MSG_HISTORY_LEN = 100 in the source
\* (src/lib/backend.py:29), scaled down so that staleness and the eviction of
\* old messages happen within a few requests
MSG_HISTORY_LEN == 2

\* number of lines the log tailer reads from the model server's log
MaxLogLines == 2
\* EndpointHandler.benchmark_runs: 8 by default, 3 in the shipped workers
\* (src/lib/data_types.py:96), scaled down
benchmark_runs == 1
\* attempts of one status report: for attempt in range(1, 4)
SEND_ATTEMPTS == 3

Requests == 1..MaxRequests
\* reqnum values an auth envelope may carry: enough of them for a reqnum to
\* fall out of the window of MSG_HISTORY_LEN below the highest one
MaxReqnum == MSG_HISTORY_LEN + 2
Reqnums == 0..MaxReqnum
\* values payload.count_workload() may return
Workloads == {1, 2}
Costs == {"c1", "c2"}
None == "None"
ErrorMsgs == {"Exception loading model"}
\* str(e) of the ClientConnectorError a benchmark call fails with
ConnectErrorMsg == "Cannot connect to host"
\* throughputs a benchmark run may measure (workload / time_elapsed)
Throughputs == {1, 2}
\* values of time.time() - model_loading_start when the model is loaded
LoadTimes == {1, 2}
\* bodies for which the handler does not get an (auth_data, payload) pair:
\* text that is not JSON, a JSON object or array without the fields, and a
\* JSON null, number or boolean
MalformedBodies == {"invalid_json", "missing_fields", "not_a_container"}

\* Backend.log_actions, in the order of the shipped workers: the line that
\* marks the server as started, an Info rule, the error rules
log_actions ==
    << [action |-> "ModelLoaded", msg |-> "Starting server"],
       [action |-> "Info", msg |-> "Downloading"],
       [action |-> "ModelError", msg |-> "Exception loading model"],
       [action |-> "ModelError", msg |-> "Model file not found"] >>
\* a log line, as the set of rule messages it contains
LogLines ==
    (SUBSET {"Starting server", "Exception loading model"})
        \cup {{"Downloading"}}
        \cup {{"Model file not found"},
               {"Exception loading model", "Model file not found"}}

\* exceptions the try block of make_request can raise: session.post is
\* aiohttp's and raises aiohttp.ClientError (connect and read failures), and
\* so do the adapters' generate_client_response, which read the aiohttp
\* response; nothing in it raises a requests.exceptions.RequestException
UpstreamExceptions == {"aiohttp.ClientConnectorError", "aiohttp.ClientPayloadError"}

VARIABLES
    \* Backend
    PUBLIC_KEY,               \* the RSA key, or None when the fetch failed
    allow_parallel_requests,
    reqnum,                   \* Backend.reqnum, the highest accepted reqnum
    msg_history,              \* Backend.msg_history
    sem_value,                \* Backend.sem._value
    sem_waiters,              \* Backend.sem._waiters: requests whose future is pending
    \* Metrics
    model_metrics,
    model_is_loaded,          \* system_metrics.model_is_loaded
    update_pending,
    model_loading_time,       \* system_metrics.model_loading_time
    \* the log tailer (__read_logs)
    benchmark_file,           \* content of BENCHMARK_INDICATOR_FILE, NoFile when absent
    tpc,                      \* position of the tailer
    lines_read,               \* number of log lines read so far
    \* one handler invocation per request
    hpc,                      \* position of __handle_request
    fpc,                      \* position of the make_request task
    cpc,                      \* position of the cancel_api_call_if_disconnected task
    auth_data,                \* the AuthData of a request that passed authentication
    workload,                 \* its payload.count_workload()
    status,                   \* the HTTP status returned, 0 while none
    \* history, not read by any action
    auth_outcome,             \* what __check_signature decided for the request
    hook_log,                 \* the Metrics request hooks called for the request, in order
    pending_at_reset,         \* workload_pending when the counters were last reset
    verify_call,              \* the last direct call of __check_signature (AuthSpec),
                              \* and whether such a call ever accepted Probe
    announcements,            \* the reports sent with loadtime > 0: loadtime, delivered
    benchmark_invocations,    \* number of calls of run_benchmark
    model_loaded_calls,       \* number of calls of Metrics._model_loaded
    api_calls,                \* calls to the model server in the last run_benchmark
    model_errored_called,     \* Metrics._model_errored was called
    last_tick,                \* what the last iteration of _send_metrics_loop did
    measured                  \* throughputs measured by the last benchmark loop, run 0 first

backend_vars == <<PUBLIC_KEY, allow_parallel_requests, reqnum, msg_history>>
sem_vars == <<sem_value, sem_waiters>>
metrics_vars == <<model_metrics, model_is_loaded, update_pending>>
request_vars == <<hpc, fpc, cpc, auth_data, workload, status>>
history_vars == <<auth_outcome, hook_log, pending_at_reset, verify_call>>
tail_vars == <<model_loading_time, benchmark_file, tpc, lines_read, announcements,
               benchmark_invocations, model_loaded_calls, api_calls>>
probe_vars == <<last_tick, measured>>
vars == <<probe_vars, backend_vars, sem_vars, metrics_vars, request_vars, history_vars,
          tail_vars, model_errored_called>>

(***************************************************************************)
(* AuthData and the signature.                                             *)
(***************************************************************************)
\* the message __check_signature builds: asdict(auth_data) minus "signature"
MessageOf(a) ==
    [cost |-> a.cost, endpoint |-> a.endpoint, reqnum |-> a.reqnum, url |-> a.url]

\* json.dumps(message, indent=4): the keys in declaration order with their values
json_dumps(message) ==
    <<"cost", message.cost, "endpoint", message.endpoint,
      "reqnum", message.reqnum, "url", message.url>>

\* the control plane's signature over a canonical message (unforgeable)
Sign(canonical) == [signed |-> canonical]
Forged == [signed |-> <<>>]

Messages == [cost : Costs, endpoint : {"/generate"}, reqnum : Reqnums, url : {"u"}]

\* no envelope: the handler has not parsed one, or has returned 401
\* one message of the control plane, followed through the history
Probe == [cost |-> "c1", endpoint |-> "/generate", reqnum |-> 0, url |-> "u"]

NoAuthData == [signature |-> Forged, cost |-> None, endpoint |-> None, reqnum |-> -1, url |-> None]

Envelope(m, s) ==
    [signature |-> s, cost |-> m.cost, endpoint |-> m.endpoint,
     reqnum |-> m.reqnum, url |-> m.url]

\* the envelopes a client may send: validly signed, or with a signature that
\* does not verify
AuthDatas ==
    {Envelope(m, Sign(json_dumps(m))) : m \in Messages}
        \cup {Envelope(m, Forged) : m \in Messages}

\* the envelope carries the control plane's signature of its own message
ValidlySigned(a) == a.signature = Sign(json_dumps(MessageOf(a)))

NoOutcome == [why |-> "none", signed |-> FALSE]

\* the envelopes sent to the request handler in Spec: the lowest and the
\* highest reqnum, so that a request can be stale
HandlerAuthDatas == {a \in AuthDatas : a.reqnum \in {0, MaxReqnum}}

\* the envelope of request r in GateSpec: validly signed, the reqnums as the
\* control plane numbers them
GateAuthData(r) ==
    LET m == [cost |-> "c1", endpoint |-> "/generate", reqnum |-> r, url |-> "u"]
    IN Envelope(m, Sign(json_dumps(m)))

\* that envelope as the client sends it, one of AuthDatas
GateEnvelopes(r) == {a \in AuthDatas : a = GateAuthData(r)}

\* bug: the signature is compared without looking at the key
verify_signature_NoKeyCheck(canonical, signature) == signature = Sign(canonical)

verify_signature(canonical, signature) ==
    IF PUBLIC_KEY = None THEN FALSE
    ELSE signature = Sign(canonical)

Max(a, b) == IF a >= b THEN a ELSE b

\* bug: the history is never truncated
LastN_NoTruncate(s, n) == s

\* s[-n:]
LastN(s, n) == IF Len(s) <= n THEN s ELSE SubSeq(s, Len(s) - n + 1, Len(s))

\* bug: only the newest entry of the history is compared
InHistory_LastOnly(message) ==
    msg_history # <<>> /\ msg_history[Len(msg_history)] = message

InHistory(message) == \E i \in 1..Len(msg_history) : msg_history[i] = message

\* bug: no reqnum floor, an old reqnum goes on to the other checks
check_signature_NoStaleCheck(a) ==
    LET message == MessageOf(a) IN
    IF InHistory(message)
    THEN [accepted |-> FALSE, why |-> "replay", reqnum |-> reqnum, msg_history |-> msg_history]
    ELSE IF verify_signature(json_dumps(message), a.signature)
    THEN [accepted |-> TRUE, why |-> "accepted",
          reqnum |-> Max(a.reqnum, reqnum),
          msg_history |-> LastN(Append(msg_history, message), MSG_HISTORY_LEN)]
    ELSE [accepted |-> FALSE, why |-> "signature", reqnum |-> reqnum, msg_history |-> msg_history]

\* bug: self.reqnum = auth_data.reqnum, without the max
check_signature_NoMax(a) ==
    LET message == MessageOf(a) IN
    IF a.reqnum < reqnum - MSG_HISTORY_LEN
    THEN [accepted |-> FALSE, why |-> "stale", reqnum |-> reqnum, msg_history |-> msg_history]
    ELSE IF InHistory(message)
    THEN [accepted |-> FALSE, why |-> "replay", reqnum |-> reqnum, msg_history |-> msg_history]
    ELSE IF verify_signature(json_dumps(message), a.signature)
    THEN [accepted |-> TRUE, why |-> "accepted",
          reqnum |-> a.reqnum,
          msg_history |-> LastN(Append(msg_history, message), MSG_HISTORY_LEN)]
    ELSE [accepted |-> FALSE, why |-> "signature", reqnum |-> reqnum, msg_history |-> msg_history]

\* bug: the message history is not consulted
check_signature_NoReplayCheck(a) ==
    LET message == MessageOf(a) IN
    IF a.reqnum < reqnum - MSG_HISTORY_LEN
    THEN [accepted |-> FALSE, why |-> "stale", reqnum |-> reqnum, msg_history |-> msg_history]
    ELSE IF verify_signature(json_dumps(message), a.signature)
    THEN [accepted |-> TRUE, why |-> "accepted",
          reqnum |-> Max(a.reqnum, reqnum),
          msg_history |-> LastN(Append(msg_history, message), MSG_HISTORY_LEN)]
    ELSE [accepted |-> FALSE, why |-> "signature", reqnum |-> reqnum, msg_history |-> msg_history]

\* bug: the last branch returns None instead of False, which the handler's
\* "is False" test lets through
check_signature_ReturnsNone(a) ==
    LET message == MessageOf(a) IN
    IF a.reqnum < reqnum - MSG_HISTORY_LEN
    THEN [accepted |-> FALSE, why |-> "stale", reqnum |-> reqnum, msg_history |-> msg_history]
    ELSE IF InHistory(message)
    THEN [accepted |-> FALSE, why |-> "replay", reqnum |-> reqnum, msg_history |-> msg_history]
    ELSE IF verify_signature(json_dumps(message), a.signature)
    THEN [accepted |-> TRUE, why |-> "accepted",
          reqnum |-> Max(a.reqnum, reqnum),
          msg_history |-> LastN(Append(msg_history, message), MSG_HISTORY_LEN)]
    ELSE [accepted |-> TRUE, why |-> "signature", reqnum |-> reqnum, msg_history |-> msg_history]

\* bug: the highest reqnum is raised before the signature is verified
check_signature_RaisesUnverified(a) ==
    LET message == MessageOf(a) IN
    IF a.reqnum < reqnum - MSG_HISTORY_LEN
    THEN [accepted |-> FALSE, why |-> "stale", reqnum |-> reqnum, msg_history |-> msg_history]
    ELSE IF InHistory(message)
    THEN [accepted |-> FALSE, why |-> "replay", reqnum |-> reqnum, msg_history |-> msg_history]
    ELSE IF verify_signature(json_dumps(message), a.signature)
    THEN [accepted |-> TRUE, why |-> "accepted",
          reqnum |-> Max(a.reqnum, reqnum),
          msg_history |-> LastN(Append(msg_history, message), MSG_HISTORY_LEN)]
    ELSE [accepted |-> FALSE, why |-> "signature",
          reqnum |-> Max(a.reqnum, reqnum), msg_history |-> msg_history]

\* Backend.__check_signature: the verdict and the replay window it leaves
check_signature(a) ==
    LET message == MessageOf(a) IN
    IF a.reqnum < reqnum - MSG_HISTORY_LEN
    THEN [accepted |-> FALSE, why |-> "stale", reqnum |-> reqnum, msg_history |-> msg_history]
    ELSE IF InHistory(message)
    THEN [accepted |-> FALSE, why |-> "replay", reqnum |-> reqnum, msg_history |-> msg_history]
    ELSE IF verify_signature(json_dumps(message), a.signature)
    THEN [accepted |-> TRUE, why |-> "accepted",
          reqnum |-> Max(a.reqnum, reqnum),
          msg_history |-> LastN(Append(msg_history, message), MSG_HISTORY_LEN)]
    ELSE [accepted |-> FALSE, why |-> "signature", reqnum |-> reqnum, msg_history |-> msg_history]

(***************************************************************************)
(* Metrics hooks (src/lib/metrics.py) on the ModelMetrics record.          *)
(***************************************************************************)
ModelMetrics_empty ==
    [workload_pending |-> 0, workload_served |-> 0, workload_cancelled |-> 0,
     workload_errored |-> 0, workload_received |-> 0, cur_perf |-> 0,
     error_msg |-> None, max_throughput |-> 0,
     requests_recieved |-> {}, requests_working |-> {}]

request_start(mm, w, n) ==
    [mm EXCEPT !.workload_pending = @ + w,
               !.workload_received = @ + w,
               !.requests_recieved = @ \cup {n},
               !.requests_working = @ \cup {n}]

\* cur_perf = workload / req_response_time, with the response time one unit
request_end(mm, w, n) ==
    [mm EXCEPT !.workload_served = @ + w,
               !.workload_pending = @ - w,
               !.requests_working = @ \ {n},
               !.cur_perf = w]

request_errored(mm, w, n) ==
    [mm EXCEPT !.workload_pending = @ - w,
               !.workload_errored = @ + w,
               !.requests_working = @ \ {n}]

\* bug: the cancel hook forgets workload_pending
request_canceled_KeepsPending(mm, w, n) ==
    [mm EXCEPT !.workload_cancelled = @ + w,
               !.requests_working = @ \ {n}]

\* bug: the cancel hook takes the reqnum off requests_recieved too
request_canceled_DropsRecieved(mm, w, n) ==
    [mm EXCEPT !.workload_pending = @ - w,
               !.workload_cancelled = @ + w,
               !.requests_working = @ \ {n},
               !.requests_recieved = @ \ {n}]

request_canceled(mm, w, n) ==
    [mm EXCEPT !.workload_pending = @ - w,
               !.workload_cancelled = @ + w,
               !.requests_working = @ \ {n}]

\* bug: the reset after a report takes the error message with it
reset_ClearsError(mm) ==
    [mm EXCEPT !.workload_served = 0, !.workload_received = 0,
               !.workload_cancelled = 0, !.workload_errored = 0,
               !.error_msg = None]

\* bug: the reset forgets the requests received so far
reset_ClearsRecieved(mm) ==
    [mm EXCEPT !.workload_served = 0, !.workload_received = 0,
               !.workload_cancelled = 0, !.workload_errored = 0,
               !.requests_recieved = {}]

\* bug: the reset leaves workload_received
reset_KeepsReceived(mm) ==
    [mm EXCEPT !.workload_served = 0,
               !.workload_cancelled = 0, !.workload_errored = 0]

\* ModelMetrics.reset
reset(mm) ==
    [mm EXCEPT !.workload_served = 0, !.workload_received = 0,
               !.workload_cancelled = 0, !.workload_errored = 0]

\* bug: set_errored resets workload_pending with the other counters
set_errored_ResetsPending(mm, error_msg) ==
    [reset(mm) EXCEPT !.workload_pending = 0, !.error_msg = error_msg]

\* ModelMetrics.set_errored
set_errored(mm, error_msg) == [reset(mm) EXCEPT !.error_msg = error_msg]

(***************************************************************************)
(* asyncio.Semaphore                                                       *)
(***************************************************************************)
\* Semaphore.locked()
locked == sem_value = 0 \/ sem_waiters # <<>>

\* an Optional[float] that is None, and one that holds x; the benchmark file
\* when it does not exist
NoValue == <<>>
Some(x) == <<x>>
NoFile == <<>>

\* str(max_throughput) as written to the benchmark file, and float() of the
\* line read back from it
str(x) == <<"text", x>>
float(text) == text[2]

\* the tailer awaits the next line of the log
Tailing == [at |-> "tailing", line |-> {}, idx |-> 0, run |-> 0, max_throughput |-> 0]

\* the state after Backend and Metrics are constructed, but for the
\* benchmark file, which is outside the process
\* no iteration of the reporter loop was observed
NoTick == [elapsed |-> 0, sent |-> FALSE, posts |-> <<>>, data |-> NoValue]

Constructed ==
    /\ PUBLIC_KEY \in {"key", None}
    /\ allow_parallel_requests \in BOOLEAN
    /\ reqnum = -1
    /\ msg_history = <<>>
    /\ sem_value = 1
    /\ sem_waiters = <<>>
    /\ model_metrics = ModelMetrics_empty
    /\ model_is_loaded = FALSE
    /\ update_pending = FALSE
    /\ hpc = [r \in Requests |-> "new"]
    /\ fpc = [r \in Requests |-> "none"]
    /\ cpc = [r \in Requests |-> "none"]
    /\ auth_data = [r \in Requests |-> NoAuthData]
    /\ workload = [r \in Requests |-> 0]
    /\ status = [r \in Requests |-> 0]
    /\ auth_outcome = [r \in Requests |-> NoOutcome]
    /\ hook_log = [r \in Requests |-> <<>>]
    /\ pending_at_reset = 0
    /\ verify_call = [auth_data |-> NoAuthData, accepted |-> FALSE, why |-> "none",
                      probe_accepted |-> FALSE]
    /\ model_loading_time = NoValue
    /\ tpc = Tailing
    /\ lines_read = 0
    /\ announcements = <<>>
    /\ benchmark_invocations = 0
    /\ model_loaded_calls = 0
    /\ api_calls = 0
    /\ model_errored_called = FALSE
    /\ last_tick = NoTick
    /\ measured = <<>>

\* a fresh instance: no benchmark was run on it
Init == Constructed /\ benchmark_file = NoFile

\* an instance that may have been started before: a benchmark file may exist
TailInit == Constructed /\ benchmark_file \in {NoFile} \cup {str(t) : t \in Throughputs}

\* Semaphore._wake_up_next after the counter became v: the permit goes to the
\* first waiter, whose future gets its result (it resumes in a later step)
wake_up_next(v, waiters, f) ==
    IF v > 0 /\ waiters # <<>>
    THEN [value |-> v - 1, waiters |-> Tail(waiters),
          fpc |-> [f EXCEPT ![Head(waiters)] = "granted"]]
    ELSE [value |-> v, waiters |-> waiters, fpc |-> f]

\* Semaphore.release(): self._value += 1; self._wake_up_next()
sem_release(f) == wake_up_next(sem_value + 1, sem_waiters, f)

Remove(s, x) == SelectSeq(s, LAMBDA y : y # x)

(***************************************************************************)
(* Backend.__handle_request, up to the await of asyncio.wait               *)
(***************************************************************************)
\* the listener spawns one handler per request; requests are numbered in the
\* order their handlers first run
Arrives(r) == hpc[r] = "new" /\ \A q \in 1..(r - 1) : hpc[q] # "new"

\* The status of a request whose body gives no (auth_data, payload) pair.
\* request.json() raises JSONDecodeError: 422. get_data_from_request finds a
\* field missing ("auth_data" in req_data is False for an object, an array or
\* a string without it): JsonDataException, 422. For a JSON null, number or
\* boolean "auth_data" in req_data raises TypeError, which neither except
\* clause takes: it leaves the handler and aiohttp answers 500.
malformed_status(body) ==
    IF body = "not_a_container" THEN 500 ELSE 422

\* request.json() or get_data_from_request fails
HandleMalformed(r, body) ==
    /\ Arrives(r)
    /\ hpc' = [hpc EXCEPT ![r] = "returned"]
    /\ status' = [status EXCEPT ![r] = malformed_status(body)]
    /\ UNCHANGED <<last_tick, measured, backend_vars, sem_vars, metrics_vars, fpc, cpc, auth_data,
                   workload, history_vars, tail_vars, model_errored_called>>

\* the body parses; __check_signature; 401, or the two tasks are created and
\* the handler suspends in asyncio.wait
HandleRequest(r, a, w) ==
    /\ Arrives(r)
    /\ LET v == check_signature(a) IN
        /\ reqnum' = v.reqnum
        /\ msg_history' = v.msg_history
        /\ auth_outcome' = [auth_outcome EXCEPT ![r] =
                                [why |-> v.why, signed |-> ValidlySigned(a)]]
        /\ IF v.accepted
           THEN /\ hpc' = [hpc EXCEPT ![r] = "waiting"]
                /\ fpc' = [fpc EXCEPT ![r] = "created"]
                /\ cpc' = [cpc EXCEPT ![r] = "created"]
                /\ auth_data' = [auth_data EXCEPT ![r] = a]
                /\ workload' = [workload EXCEPT ![r] = w]
                /\ UNCHANGED status
           ELSE /\ hpc' = [hpc EXCEPT ![r] = "returned"]
                /\ status' = [status EXCEPT ![r] = 401]
                /\ UNCHANGED <<fpc, cpc, auth_data, workload>>
    /\ UNCHANGED <<last_tick, measured, PUBLIC_KEY, allow_parallel_requests, sem_vars, metrics_vars,
                   hook_log, pending_at_reset, verify_call, tail_vars, model_errored_called>>

(***************************************************************************)
(* make_request (Forward) and cancel_api_call_if_disconnected              *)
(* (Cancel-watch)                                                          *)
(***************************************************************************)
\* bug: the Cancel-watch task is run first and alone, the Forward task has
\* not called _request_start when the watch is armed
TasksStart_WatchFirst(r) ==
    /\ fpc[r] = "created"
    /\ cpc[r] = "created"
    /\ cpc' = [cpc EXCEPT ![r] = "watching"]
    /\ UNCHANGED <<last_tick, measured, backend_vars, sem_vars, metrics_vars, hpc, fpc,
                   auth_data, workload, status, history_vars, tail_vars,
                   model_errored_called>>

\* The first steps of the two tasks. create_task puts them on the loop's
\* ready queue one after the other and the loop runs the queue in FIFO
\* order, so nothing runs between them.
\* make_request: _request_start, then sem.acquire() (which returns at once
\* when the semaphore is not locked), then the POST is sent.
\* cancel_api_call_if_disconnected: await request.wait_for_disconnection().
TasksStart(r) ==
    /\ fpc[r] = "created"
    /\ model_metrics' = request_start(model_metrics, workload[r], auth_data[r].reqnum)
    /\ hook_log' = [hook_log EXCEPT ![r] = Append(@, "start")]
    /\ IF allow_parallel_requests
       THEN /\ fpc' = [fpc EXCEPT ![r] = "posting"]
            /\ UNCHANGED sem_vars
       ELSE IF ~locked
       THEN /\ sem_value' = sem_value - 1
            /\ fpc' = [fpc EXCEPT ![r] = "posting"]
            /\ UNCHANGED sem_waiters
       ELSE /\ sem_waiters' = Append(sem_waiters, r)
            /\ fpc' = [fpc EXCEPT ![r] = "acquiring"]
            /\ UNCHANGED sem_value
    /\ cpc' = [cpc EXCEPT ![r] = "watching"]
    /\ UNCHANGED <<last_tick, measured, backend_vars, model_is_loaded, update_pending, hpc,
                   auth_data, workload, status, auth_outcome, pending_at_reset, verify_call, tail_vars, model_errored_called>>

\* the waiter's future has its result: acquire() returns, the POST is sent
ForwardAcquired(r) ==
    /\ fpc[r] = "granted"
    /\ fpc' = [fpc EXCEPT ![r] = "posting"]
    /\ UNCHANGED <<last_tick, measured, backend_vars, sem_vars, metrics_vars, hpc, cpc, auth_data,
                   workload, status, history_vars, tail_vars, model_errored_called>>

\* the model server answers and generate_client_response returns:
\* _request_end, return res; finally: sem.release()
ForwardResponse(r) ==
    /\ fpc[r] = "posting"
    /\ model_metrics' = request_end(model_metrics, workload[r], auth_data[r].reqnum)
    /\ update_pending' = TRUE
    /\ hook_log' = [hook_log EXCEPT ![r] = Append(@, "end")]
    /\ LET s == sem_release([fpc EXCEPT ![r] = "returned200"]) IN
        /\ sem_value' = s.value
        /\ sem_waiters' = s.waiters
        /\ fpc' = s.fpc
    /\ UNCHANGED <<last_tick, measured, backend_vars, model_is_loaded, hpc, cpc, auth_data, workload,
                   status, auth_outcome, pending_at_reset, verify_call, tail_vars, model_errored_called>>

\* except requests.exceptions.RequestException
IsRequestException(exc) == exc = "requests.RequestException"

\* the POST or generate_client_response raises exc: the except clause takes a
\* requests.exceptions.RequestException only; finally: sem.release()
ForwardRaise(r, exc) ==
    /\ fpc[r] = "posting"
    /\ IF IsRequestException(exc)
       THEN /\ model_metrics' = request_errored(model_metrics, workload[r], auth_data[r].reqnum)
            /\ hook_log' = [hook_log EXCEPT ![r] = Append(@, "errored")]
       ELSE UNCHANGED <<model_metrics, hook_log>>
    /\ LET s == sem_release([fpc EXCEPT ![r] =
                    IF IsRequestException(exc) THEN "returned500" ELSE "raised"]) IN
        /\ sem_value' = s.value
        /\ sem_waiters' = s.waiters
        /\ fpc' = s.fpc
    /\ UNCHANGED <<last_tick, measured, backend_vars, model_is_loaded, update_pending, hpc, cpc,
                   auth_data, workload, status, auth_outcome, pending_at_reset, verify_call, tail_vars, model_errored_called>>

\* the task was cancelled while it held the permit: CancelledError is thrown
\* into the try block (finally: sem.release()), or into acquire() after its
\* future got the permit (acquire gives the permit back)
ForwardCancelled(r) ==
    /\ fpc[r] \in {"posting_cancel", "granted_cancel"}
    /\ LET s == sem_release([fpc EXCEPT ![r] = "cancelled"]) IN
        /\ sem_value' = s.value
        /\ sem_waiters' = s.waiters
        /\ fpc' = s.fpc
    /\ UNCHANGED <<last_tick, measured, backend_vars, metrics_vars, hpc, cpc, auth_data, workload,
                   status, history_vars, tail_vars, model_errored_called>>

\* the client disconnects: _request_canceled, return 500
Disconnect(r) ==
    /\ cpc[r] = "watching"
    /\ model_metrics' = request_canceled(model_metrics, workload[r], auth_data[r].reqnum)
    /\ hook_log' = [hook_log EXCEPT ![r] = Append(@, "canceled")]
    /\ cpc' = [cpc EXCEPT ![r] = "returned500"]
    /\ UNCHANGED <<last_tick, measured, backend_vars, sem_vars, model_is_loaded, update_pending, hpc,
                   fpc, auth_data, workload, status, auth_outcome, pending_at_reset, verify_call, tail_vars, model_errored_called>>

(***************************************************************************)
(* Backend.__handle_request after asyncio.wait returned                    *)
(***************************************************************************)
ForwardDone(r) == fpc[r] \in {"returned200", "returned500", "raised"}
CancelWatchDone(r) == cpc[r] = "returned500"

\* bug: sem.acquire() inside the try block, so that a cancelled acquire runs
\* the finally clause and releases a permit it never held
cancel_forward_AcquireInTry(f, r) ==
    IF f[r] \in {"acquiring", "posting"} THEN [f EXCEPT ![r] = "posting_cancel"]
    ELSE IF f[r] = "granted" THEN [f EXCEPT ![r] = "granted_cancel"]
    ELSE f

\* bug: no finally clause, a cancelled call keeps the permit
cancel_forward_NoFinally(f, r) ==
    IF f[r] \in {"acquiring", "posting"} THEN [f EXCEPT ![r] = "cancelled"]
    ELSE IF f[r] = "granted" THEN [f EXCEPT ![r] = "granted_cancel"]
    ELSE f

\* task.cancel() on a pending make_request: a pending acquire() future is
\* cancelled at once (the semaphore skips it); otherwise CancelledError is
\* thrown at the task's next step
cancel_forward(f, r) ==
    IF f[r] = "acquiring" THEN [f EXCEPT ![r] = "cancelled"]
    ELSE IF f[r] = "granted" THEN [f EXCEPT ![r] = "granted_cancel"]
    ELSE IF f[r] = "posting" THEN [f EXCEPT ![r] = "posting_cancel"]
    ELSE f

\* done.pop().result() for the task popped; a raised exception is caught by
\* "except Exception" and answered 500
result_status(t, r) ==
    IF t = "forward"
    THEN (IF fpc[r] = "returned200" THEN 200 ELSE 500)
    ELSE 500

\* wait(FIRST_COMPLETED) returns: the pending task is cancelled and the
\* result of one done task (set.pop: any of them) is returned
HandlerResume(r, t) ==
    /\ hpc[r] = "waiting"
    /\ \/ t = "forward" /\ ForwardDone(r)
       \/ t = "cancel_watch" /\ CancelWatchDone(r)
    /\ hpc' = [hpc EXCEPT ![r] = "returned"]
    /\ status' = [status EXCEPT ![r] = result_status(t, r)]
    /\ fpc' = cancel_forward(fpc, r)
    /\ sem_waiters' = IF fpc[r] = "acquiring" THEN Remove(sem_waiters, r) ELSE sem_waiters
    /\ cpc' = IF CancelWatchDone(r) THEN cpc ELSE [cpc EXCEPT ![r] = "cancelled"]
    /\ UNCHANGED <<last_tick, measured, backend_vars, sem_value, metrics_vars, auth_data, workload,
                   history_vars, tail_vars, model_errored_called>>

(***************************************************************************)
(* Log tailer and reporter, as far as they touch the request accounting    *)
(***************************************************************************)
\* Metrics._model_errored, called by the log tailer
ModelErrored(msg) ==
    /\ model_metrics' = set_errored(model_metrics, msg)
    /\ model_is_loaded' = TRUE
    /\ pending_at_reset' = model_metrics.workload_pending
    /\ model_errored_called' = TRUE
    /\ UNCHANGED <<last_tick, measured, backend_vars, sem_vars, update_pending, request_vars,
                   auth_outcome, hook_log, verify_call, tail_vars>>

\* ModelMetrics.workload_processing
workload_processing(mm) == Max(mm.workload_received - mm.workload_cancelled, 0)

\* bug: the snapshot is computed after the counters were reset
compute_autoscaler_data_AfterReset ==
    [loadtime |-> IF model_loading_time = NoValue THEN 0 ELSE model_loading_time[1],
     workload_processing |-> workload_processing(reset(model_metrics)),
     max_perf |-> model_metrics.max_throughput,
     cur_perf |-> model_metrics.cur_perf,
     error_msg |-> IF model_metrics.error_msg = None THEN "" ELSE model_metrics.error_msg,
     num_requests_working |-> Cardinality(model_metrics.requests_working),
     num_requests_recieved |-> Cardinality(model_metrics.requests_recieved)]

\* compute_autoscaler_data: the fields of the status report that depend on
\* the model's state ("x or default" replaces None). cur_load is
\* workload_processing / elapsed; its numerator is kept.
compute_autoscaler_data ==
    [loadtime |-> IF model_loading_time = NoValue THEN 0 ELSE model_loading_time[1],
     workload_processing |-> workload_processing(model_metrics),
     max_perf |-> model_metrics.max_throughput,
     cur_perf |-> model_metrics.cur_perf,
     error_msg |-> IF model_metrics.error_msg = None THEN "" ELSE model_metrics.error_msg,
     num_requests_working |-> Cardinality(model_metrics.requests_working),
     num_requests_recieved |-> Cardinality(model_metrics.requests_recieved)]

\* send_data: up to SEND_ATTEMPTS posts, the loop breaks at the first one that
\* does not raise; first_success is that attempt, 0 when every attempt fails
send_data(first_success) == first_success \in 1..SEND_ATTEMPTS

\* bug: the reset after a report keeps the loading time
system_metrics_reset_Keeps(loading_time) == loading_time

\* SystemMetrics.reset
system_metrics_reset(loading_time) == NoValue

\* the statements of Metrics.__send_metrics_and_reset after send_data, which
\* run whatever send_data achieved (delivered). It has no await: the event
\* loop runs nothing else between compute_autoscaler_data and the resets.
\* What send_data achieved is recorded for the reports that carry a loadtime.
send_metrics_and_reset(delivered) ==
    /\ announcements' =
          IF compute_autoscaler_data.loadtime > 0
          THEN Append(announcements,
                      [loadtime |-> compute_autoscaler_data.loadtime,
                       delivered |-> delivered])
          ELSE announcements
    /\ update_pending' = FALSE
    /\ model_metrics' = reset(model_metrics)
    /\ model_loading_time' = system_metrics_reset(model_loading_time)
    /\ pending_at_reset' = model_metrics.workload_pending
    /\ UNCHANGED <<measured, backend_vars, sem_vars, model_is_loaded, request_vars,
                   auth_outcome, hook_log, verify_call, benchmark_file, tpc,
                   lines_read, benchmark_invocations, model_loaded_calls, api_calls,
                   model_errored_called>>

\* Metrics.__send_metrics_and_reset at some iteration of the reporter loop
\* (which ends with the process), time left out. The outcome of send_data is
\* drawn where it is recorded.
SendMetricsAndReset ==
    /\ tpc.at # "dead"
    /\ \E first_success \in IF compute_autoscaler_data.loadtime > 0
                             THEN 0..SEND_ATTEMPTS ELSE {0} :
           send_metrics_and_reset(send_data(first_success))
    /\ UNCHANGED last_tick

\* the values of time.time() - last_metric_update the model tells apart:
\* below, at and above the ten seconds of _send_metrics_loop
Elapsed == {9, 10, 11}

\* for each attempt of send_data, whether requests.post raises
Raises == [1..SEND_ATTEMPTS -> BOOLEAN]

\* bug: update_pending is not looked at, a report waits for the ten seconds
should_send_IgnoresPending(is_loaded, pending, elapsed) ==
    IF is_loaded = FALSE /\ elapsed >= 10 THEN TRUE
    ELSE elapsed > 10

\* bug: a report is sent on every iteration
should_send_Always(is_loaded, pending, elapsed) == TRUE

\* the two branches of _send_metrics_loop that call __send_metrics_and_reset
should_send(is_loaded, pending, elapsed) ==
    IF is_loaded = FALSE /\ elapsed >= 10 THEN TRUE
    ELSE pending \/ elapsed > 10

\* bug: send_data goes on posting after a post that succeeded
RECURSIVE post_loop_NoBreak(_, _)
post_loop_NoBreak(raises, attempt) ==
    IF attempt > SEND_ATTEMPTS THEN <<>>
    ELSE <<~raises[attempt]>> \o post_loop_NoBreak(raises, attempt + 1)

\* the loop of send_data from `attempt` on: the posts it makes, TRUE for a
\* post that returned and FALSE for one that raised
RECURSIVE post_loop(_, _)
post_loop(raises, attempt) ==
    IF attempt > SEND_ATTEMPTS THEN <<>>
    ELSE IF raises[attempt] THEN <<FALSE>> \o post_loop(raises, attempt + 1)
    ELSE <<TRUE>>

\* elapsed = time.time() - last_metric_update at the next iteration:
\* last_metric_update is 0.0 (the epoch) until the first report, and then the
\* time of the last report; an iteration that sent nothing is followed, a
\* sleep of a second later, by one with a larger elapsed
NextElapsed ==
    IF last_tick = NoTick THEN {e \in Elapsed : e > 10}
    ELSE IF last_tick.sent THEN Elapsed
    ELSE {e \in Elapsed : e > last_tick.elapsed}

\* one iteration of Metrics._send_metrics_loop, after its sleep
SendMetricsLoop(elapsed, raises) ==
    /\ tpc.at # "dead"
    /\ elapsed \in NextElapsed
    /\ IF should_send(model_is_loaded, update_pending, elapsed)
       THEN LET posts == post_loop(raises, 1) IN
               /\ send_metrics_and_reset(posts[Len(posts)])
               /\ last_tick' = [elapsed |-> elapsed, sent |-> TRUE, posts |-> posts,
                                data |-> Some(compute_autoscaler_data)]
       ELSE /\ last_tick' = [elapsed |-> elapsed, sent |-> FALSE, posts |-> <<>>,
                             data |-> NoValue]
            /\ UNCHANGED <<measured, backend_vars, sem_vars, metrics_vars,
                           request_vars, history_vars, tail_vars,
                           model_errored_called>>

(***************************************************************************)
(* __read_logs: tail_log, handle_log_line, run_benchmark                   *)
(***************************************************************************)
\* "msg in log_line"
Matches(rule, line) == rule.msg \in line

\* handle_log_line's loop over log_actions from rule i on, up to its next
\* suspension point: it ends ("done"), reaches a matching ModelError rule
\* (backend_errored(msg); break), or a matching ModelLoaded rule (await
\* sleep(5), then the benchmark)
\* bug: no break after a matching ModelError rule, the last one that
\* matches has the last word
RECURSIVE scan_NoBreak(_, _)
scan_NoBreak(line, i) ==
    IF i > Len(log_actions) THEN [kind |-> "done"]
    ELSE IF ~Matches(log_actions[i], line) THEN scan_NoBreak(line, i + 1)
    ELSE IF log_actions[i].action = "ModelLoaded" THEN [kind |-> "sleep", idx |-> i]
    ELSE IF log_actions[i].action = "ModelError"
    THEN IF scan_NoBreak(line, i + 1).kind = "errored"
         THEN scan_NoBreak(line, i + 1)
         ELSE [kind |-> "errored", msg |-> log_actions[i].msg]
    ELSE scan_NoBreak(line, i + 1)

RECURSIVE scan(_, _)
scan(line, i) ==
    IF i > Len(log_actions) THEN [kind |-> "done"]
    ELSE IF ~Matches(log_actions[i], line) THEN scan(line, i + 1)
    ELSE IF log_actions[i].action = "ModelLoaded" THEN [kind |-> "sleep", idx |-> i]
    ELSE IF log_actions[i].action = "ModelError"
    THEN [kind |-> "errored", msg |-> log_actions[i].msg]
    ELSE scan(line, i + 1)

\* bug: the benchmark file is never found
file_exists_Never(f) == FALSE

\* open(BENCHMARK_INDICATOR_FILE, "r") does not raise FileNotFoundError
file_exists(f) == f # NoFile

\* Metrics._model_loaded on the ModelMetrics record
model_loaded(mm, max_throughput) == [mm EXCEPT !.max_throughput = max_throughput]

\* The loop of handle_log_line goes on from rule i. mm is the ModelMetrics
\* the step has made so far, and errored tells that it has called
\* _model_errored already.
ContinueLogLine(line, i, mm, errored) ==
    LET o == scan(line, i) IN
        /\ model_metrics' = IF o.kind = "errored" THEN set_errored(mm, o.msg) ELSE mm
        /\ model_errored_called' = (model_errored_called \/ errored \/ o.kind = "errored")
        /\ pending_at_reset' =
              IF errored \/ o.kind = "errored" THEN mm.workload_pending
              ELSE pending_at_reset
        /\ tpc' = IF o.kind = "sleep"
                  THEN [at |-> "sleeping", line |-> line, idx |-> o.idx,
                        run |-> 0, max_throughput |-> 0]
                  ELSE [Tailing EXCEPT !.line = line]

\* bug: tail_log does not await handle_log_line, the next line is read and
\* handled while the benchmark of an earlier one is in progress
ReadLine_NoAwait(line) ==
    /\ tpc.at \in {"tailing", "sleeping", "warmup", "bench"}
    /\ lines_read < MaxLogLines
    /\ lines_read' = lines_read + 1
    /\ ContinueLogLine(line, 1, model_metrics, FALSE)
    /\ model_is_loaded' = (model_is_loaded \/ scan(line, 1).kind = "errored")
    /\ UNCHANGED <<last_tick, measured, backend_vars, sem_vars, update_pending, request_vars,
                   auth_outcome, hook_log, verify_call, model_loading_time,
                   benchmark_file, announcements, benchmark_invocations,
                   model_loaded_calls, api_calls>>

\* tail_log: readline() returns a line, handle_log_line starts on it
ReadLine(line) ==
    /\ tpc.at = "tailing"
    /\ lines_read < MaxLogLines
    /\ lines_read' = lines_read + 1
    /\ ContinueLogLine(line, 1, model_metrics, FALSE)
    /\ model_is_loaded' = (model_is_loaded \/ scan(line, 1).kind = "errored")
    /\ UNCHANGED <<last_tick, measured, backend_vars, sem_vars, update_pending, request_vars,
                   auth_outcome, hook_log, verify_call, model_loading_time,
                   benchmark_file, announcements, benchmark_invocations,
                   model_loaded_calls, api_calls>>

\* sleep(5) is over: run_benchmark opens the benchmark file and sends its
\* first call to the model server, the warm-up call when the file exists and
\* run 0 of the benchmark loop when it does not
RunBenchmark ==
    /\ tpc.at = "sleeping"
    /\ tpc' = [tpc EXCEPT !.at = IF file_exists(benchmark_file) THEN "warmup" ELSE "bench"]
    /\ benchmark_invocations' = benchmark_invocations + 1
    /\ api_calls' = 1
    /\ measured' = <<>>
    /\ UNCHANGED <<last_tick, backend_vars, sem_vars, metrics_vars, request_vars, history_vars,
                   model_loading_time, benchmark_file, lines_read, announcements,
                   model_loaded_calls, model_errored_called>>

\* the warm-up call returns: return float(f.readline()); _model_loaded
WarmupResponse(loading_time) ==
    /\ tpc.at = "warmup"
    /\ model_loading_time' = Some(loading_time)
    /\ model_is_loaded' = TRUE
    /\ model_loaded_calls' = model_loaded_calls + 1
    /\ ContinueLogLine(tpc.line, tpc.idx + 1,
                       model_loaded(model_metrics, float(benchmark_file)), FALSE)
    /\ UNCHANGED <<last_tick, measured, backend_vars, sem_vars, update_pending, request_vars,
                   auth_outcome, hook_log, verify_call, benchmark_file, lines_read,
                   announcements, benchmark_invocations, api_calls>>

\* bug: the throughput of run 0 is counted
benchmark_run_CountsRun0(run, max_throughput, throughput) ==
    Max(max_throughput, throughput)

\* the body of the benchmark loop after the call of run `run` returned: the
\* new max_throughput ("if run == 0: continue")
benchmark_run(run, max_throughput, throughput) ==
    IF run = 0 THEN max_throughput ELSE Max(max_throughput, throughput)

\* a call of the benchmark loop returns and res.json() reads it. Run 0 is
\* not counted. After the last run the maximum is written to the benchmark
\* file and given to _model_loaded.
BenchResponse(throughput, loading_time) ==
    /\ tpc.at = "bench"
    /\ measured' = Append(measured, throughput)
    /\ LET m == benchmark_run(tpc.run, tpc.max_throughput, throughput)
       IN IF tpc.run < benchmark_runs
          THEN /\ tpc' = [tpc EXCEPT !.run = @ + 1, !.max_throughput = m]
               /\ api_calls' = api_calls + 1
               /\ UNCHANGED <<model_metrics, model_is_loaded, model_loading_time,
                              benchmark_file, model_loaded_calls, pending_at_reset,
                              model_errored_called>>
          ELSE /\ benchmark_file' = str(m)
               /\ model_loading_time' = Some(loading_time)
               /\ model_is_loaded' = TRUE
               /\ model_loaded_calls' = model_loaded_calls + 1
               /\ ContinueLogLine(tpc.line, tpc.idx + 1,
                                  model_loaded(model_metrics, m), FALSE)
               /\ UNCHANGED api_calls
    /\ UNCHANGED <<last_tick, backend_vars, sem_vars, update_pending, request_vars,
                   auth_outcome, hook_log, verify_call, lines_read, announcements,
                   benchmark_invocations>>

\* a benchmark or warm-up call raises ClientConnectorError:
\* backend_errored(str(e)), and the loop over log_actions goes on
BenchmarkConnectError ==
    /\ tpc.at \in {"warmup", "bench"}
    /\ model_is_loaded' = TRUE
    /\ ContinueLogLine(tpc.line, tpc.idx + 1,
                       set_errored(model_metrics, ConnectErrorMsg), TRUE)
    /\ UNCHANGED <<last_tick, measured, backend_vars, sem_vars, update_pending, request_vars,
                   auth_outcome, hook_log, verify_call, model_loading_time,
                   benchmark_file, lines_read, announcements, benchmark_invocations,
                   model_loaded_calls, api_calls>>

\* a benchmark or warm-up call raises another exception (a read failure, a
\* body that is not JSON): it leaves __read_logs and gather, and run(main())
\* ends the process
BenchmarkRaise ==
    /\ tpc.at \in {"warmup", "bench"}
    /\ tpc' = [Tailing EXCEPT !.at = "dead"]
    /\ UNCHANGED <<last_tick, measured, backend_vars, sem_vars, metrics_vars, request_vars, history_vars,
                   model_loading_time, benchmark_file, lines_read, announcements,
                   benchmark_invocations, model_loaded_calls, api_calls,
                   model_errored_called>>

Next ==
    \/ \E r \in Requests, body \in MalformedBodies : HandleMalformed(r, body)
    \/ \E r \in Requests, a \in HandlerAuthDatas, w \in Workloads : HandleRequest(r, a, w)
    \/ \E r \in Requests : TasksStart(r)
    \/ \E r \in Requests : ForwardAcquired(r)
    \/ \E r \in Requests : ForwardResponse(r)
    \/ \E r \in Requests, exc \in UpstreamExceptions : ForwardRaise(r, exc)
    \/ \E r \in Requests : ForwardCancelled(r)
    \/ \E r \in Requests : Disconnect(r)
    \/ \E r \in Requests, t \in {"forward", "cancel_watch"} : HandlerResume(r, t)
    \/ \E msg \in ErrorMsgs : ModelErrored(msg)
    \/ SendMetricsAndReset

Spec == Init /\ [][Next]_vars

(***************************************************************************)
(* AuthSpec: the authenticator alone, under any sequence of calls          *)
(***************************************************************************)
\* one call of Backend.__check_signature
Verify(a) ==
    LET v == check_signature(a) IN
        /\ reqnum' = v.reqnum
        /\ msg_history' = v.msg_history
        /\ verify_call' = [auth_data |-> a, accepted |-> v.accepted, why |-> v.why,
                           probe_accepted |->
                               \/ verify_call.probe_accepted
                               \/ v.accepted /\ MessageOf(a) = Probe]
        /\ UNCHANGED <<last_tick, measured, PUBLIC_KEY, allow_parallel_requests, sem_vars, metrics_vars,
                       request_vars, auth_outcome, hook_log, pending_at_reset, tail_vars, model_errored_called>>

AuthNext == \E a \in AuthDatas : Verify(a)

AuthSpec == Init /\ [][AuthNext]_vars

(***************************************************************************)
(* GateSpec: the request lifecycle around the admission gate, with the     *)
(* scheduling the event loop guarantees: a task that is ready to run runs, *)
(* and every upstream call ends (with a response or an exception); a       *)
(* client may or may not disconnect.                                       *)
(***************************************************************************)
GateNext ==
    \/ \E r \in Requests : \E a \in GateEnvelopes(r) : HandleRequest(r, a, 1)
    \/ \E r \in Requests : TasksStart(r)
    \/ \E r \in Requests : ForwardAcquired(r)
    \/ \E r \in Requests : ForwardResponse(r)
    \/ \E r \in Requests, exc \in UpstreamExceptions : ForwardRaise(r, exc)
    \/ \E r \in Requests : ForwardCancelled(r)
    \/ \E r \in Requests : Disconnect(r)
    \/ \E r \in Requests, t \in {"forward", "cancel_watch"} : HandlerResume(r, t)

GateFairness ==
    \A r \in Requests :
        /\ WF_vars(TasksStart(r))
        /\ WF_vars(ForwardAcquired(r))
        /\ WF_vars(ForwardCancelled(r))
        /\ WF_vars(\E t \in {"forward", "cancel_watch"} : HandlerResume(r, t))
        /\ WF_vars(ForwardResponse(r) \/ \E exc \in UpstreamExceptions : ForwardRaise(r, exc))

GateSpec == Init /\ [][GateNext]_vars /\ GateFairness

(***************************************************************************)
(* HandlerSpec: the request handlers alone, without the metrics reporter   *)
(* and the log watcher                                                     *)
(***************************************************************************)
HandlerNext ==
    \/ \E r \in Requests, body \in MalformedBodies : HandleMalformed(r, body)
    \/ \E r \in Requests, a \in HandlerAuthDatas, w \in Workloads : HandleRequest(r, a, w)
    \/ \E r \in Requests : TasksStart(r)
    \/ \E r \in Requests : ForwardAcquired(r)
    \/ \E r \in Requests : ForwardResponse(r)
    \/ \E r \in Requests, exc \in UpstreamExceptions : ForwardRaise(r, exc)
    \/ \E r \in Requests : ForwardCancelled(r)
    \/ \E r \in Requests : Disconnect(r)
    \/ \E r \in Requests, t \in {"forward", "cancel_watch"} : HandlerResume(r, t)

HandlerSpec == Init /\ [][HandlerNext]_vars

(***************************************************************************)
(* MeterSpec: the metrics hooks of authenticated requests, the reporter    *)
(* and model_errored                                                       *)
(***************************************************************************)
MeterNext ==
    \/ \E r \in Requests, w \in Workloads :
          \E a \in GateEnvelopes(r) : HandleRequest(r, a, w)
    \/ \E r \in Requests : TasksStart(r)
    \/ \E r \in Requests : ForwardAcquired(r)
    \/ \E r \in Requests : ForwardResponse(r)
    \/ \E r \in Requests, exc \in UpstreamExceptions : ForwardRaise(r, exc)
    \/ \E r \in Requests : ForwardCancelled(r)
    \/ \E r \in Requests : Disconnect(r)
    \/ \E r \in Requests, t \in {"forward", "cancel_watch"} : HandlerResume(r, t)
    \/ \E msg \in ErrorMsgs : ModelErrored(msg)
    \/ SendMetricsAndReset

MeterSpec == Init /\ [][MeterNext]_vars

(***************************************************************************)
(* TailSpec: the tracking tasks of _start_tracking, that is the log tailer *)
(* with the benchmark and the metrics reporter                             *)
(***************************************************************************)
TailNext ==
    \/ \E line \in LogLines : ReadLine(line)
    \/ RunBenchmark
    \/ \E t \in LoadTimes : WarmupResponse(t)
    \/ \E thr \in Throughputs, t \in LoadTimes : BenchResponse(thr, t)
    \/ BenchmarkConnectError
    \/ BenchmarkRaise
    \/ SendMetricsAndReset

TailSpec == TailInit /\ [][TailNext]_vars

(***************************************************************************)
(* TrackSpec: the tracking tasks of _start_tracking beside the handler of  *)
(* one authenticated request, on an instance that fetched its key. No      *)
(* request is handled once the process has ended. A single request never   *)
(* waits for the semaphore.                                                *)
(***************************************************************************)
\* the request whose handler runs beside the tracking tasks
Observed == {1}

TrackInit == TailInit /\ PUBLIC_KEY # None

TrackNext ==
    \/ /\ tpc.at # "dead"
       /\ \/ \E r \in Observed : \E a \in GateEnvelopes(r) : HandleRequest(r, a, 1)
          \/ \E r \in Observed : TasksStart(r)
          \/ \E r \in Observed : ForwardResponse(r)
          \/ \E r \in Observed, exc \in UpstreamExceptions : ForwardRaise(r, exc)
          \/ \E r \in Observed : ForwardCancelled(r)
          \/ \E r \in Observed : Disconnect(r)
          \/ \E r \in Observed, t \in {"forward", "cancel_watch"} : HandlerResume(r, t)
    \/ \E line \in LogLines : ReadLine(line)
    \/ RunBenchmark
    \/ \E t \in LoadTimes : WarmupResponse(t)
    \/ \E thr \in Throughputs, t \in LoadTimes : BenchResponse(thr, t)
    \/ BenchmarkConnectError
    \/ BenchmarkRaise
    \/ SendMetricsAndReset

TrackSpec == TrackInit /\ [][TrackNext]_vars

(***************************************************************************)
(* TickSpec: the iterations of the reporter loop, with the elapsed time    *)
(* each one computes and the posts it makes, beside the handler of one     *)
(* authenticated request and model_errored                                 *)
(***************************************************************************)
TickInit == Init /\ PUBLIC_KEY # None

TickNext ==
    \/ \E r \in Observed, w \in Workloads :
          \E a \in GateEnvelopes(r) : HandleRequest(r, a, w)
    \/ \E r \in Observed : TasksStart(r)
    \/ \E r \in Observed : ForwardResponse(r)
    \/ \E r \in Observed, exc \in UpstreamExceptions : ForwardRaise(r, exc)
    \/ \E r \in Observed : ForwardCancelled(r)
    \/ \E r \in Observed : Disconnect(r)
    \/ \E r \in Observed, t \in {"forward", "cancel_watch"} : HandlerResume(r, t)
    \/ \E msg \in ErrorMsgs : ModelErrored(msg)
    \/ \E elapsed \in Elapsed, raises \in Raises : SendMetricsLoop(elapsed, raises)

TickSpec == TickInit /\ [][TickNext]_vars

\* "while True: await sleep(METRICS_UPDATE_INTERVAL)": the reporter loop comes
\* to its next iteration whatever else the event loop runs
TickFairness ==
    WF_vars(\E elapsed \in Elapsed, raises \in Raises : SendMetricsLoop(elapsed, raises))

TickLiveSpec == TickInit /\ [][TickNext]_vars /\ TickFairness

(***************************************************************************)
(* Properties                                                              *)
(***************************************************************************)
TerminalHooks == {"end", "errored", "canceled"}
TerminalCount(r) ==
    Cardinality({i \in 1..Len(hook_log[r]) : hook_log[r][i] \in TerminalHooks})
StartCount(r) ==
    Cardinality({i \in 1..Len(hook_log[r]) : hook_log[r][i] = "start"})
Authenticated(r) == auth_outcome[r].why = "accepted"
Rejections == {"stale", "replay", "signature"}

\* C1: every authenticated request gets exactly one of _request_end,
\* _request_errored, _request_canceled between its _request_start and the
\* return of its handler: never two, and one once the handler has returned.
C1_ExactlyOneTerminalHook ==
    \A r \in Requests :
        Authenticated(r) =>
            /\ TerminalCount(r) <= 1
            /\ hpc[r] = "returned" => TerminalCount(r) = 1

\* a make_request task is between its completed sem.acquire() and its
\* sem.release()
Holding(r) == fpc[r] \in {"posting", "posting_cancel"}

\* C2: in serial mode at most one make_request task is past sem.acquire() and
\* before its sem.release().
C2_SerialMode ==
    ~allow_parallel_requests => Cardinality({r \in Requests : Holding(r)}) <= 1

C2_Witness ==
    /\ ~allow_parallel_requests
    /\ \E r1, r2 \in Requests : fpc[r1] = "posting" /\ fpc[r2] = "acquiring"

\* the tasks that have the permit: holding it, or handed it by release()
GateHolders == {r \in Requests : Holding(r) \/ fpc[r] \in {"granted", "granted_cancel"}}

Drift(mm) ==
    mm.workload_received
        - (mm.workload_served + mm.workload_cancelled + mm.workload_errored)
        - mm.workload_pending

C5_PendingNonNegative == model_metrics.workload_pending >= 0

\* C6: a call whose reqnum is within the window and whose message is one of
\* those held in msg_history is rejected, whatever its signature, and leaves
\* the replay window as it was.
C6_ReplayWindow ==
    [][\A a \in AuthDatas :
          ( /\ Verify(a)
            /\ a.reqnum >= reqnum - MSG_HISTORY_LEN
            /\ \E i \in 1..Len(msg_history) : msg_history[i] = MessageOf(a) )
          => (~verify_call'.accepted /\ UNCHANGED <<reqnum, msg_history>>)]_vars

C6_Witness ==
    /\ verify_call.why = "replay"
    /\ ValidlySigned(verify_call.auth_data)
    /\ PUBLIC_KEY # None
    /\ Len(msg_history) = MSG_HISTORY_LEN
    /\ msg_history[1] = MessageOf(verify_call.auth_data)

\* C7: a call whose reqnum is below highest_reqnum - MSG_HISTORY_LEN is
\* rejected as stale, before the history and the signature are looked at.
C7_StaleRejectedFirst ==
    [][\A a \in AuthDatas :
          (Verify(a) /\ a.reqnum < reqnum - MSG_HISTORY_LEN)
          => ( /\ ~verify_call'.accepted
               /\ verify_call'.why = "stale"
               /\ UNCHANGED <<reqnum, msg_history>> )]_vars

\* a validly signed message that was never accepted (one message was accepted
\* so far, another one) is rejected as stale
C7_Witness ==
    /\ verify_call.why = "stale"
    /\ ValidlySigned(verify_call.auth_data)
    /\ PUBLIC_KEY # None
    /\ Len(msg_history) = 1
    /\ msg_history[1] # MessageOf(verify_call.auth_data)

\* C8: Backend.reqnum starts at -1, never decreases, and is at least the
\* reqnum of the message just accepted.
C8_MonotonicReqnum ==
    /\ reqnum = -1
    /\ [][reqnum' >= reqnum]_vars
    /\ [](verify_call.accepted => reqnum >= verify_call.auth_data.reqnum)

\* a message is accepted whose reqnum is below the highest one
C8_Witness ==
    /\ verify_call.accepted
    /\ reqnum > verify_call.auth_data.reqnum

\* C9: a request that carries the envelope of a request already accepted
\* (the two being within MSG_HISTORY_LEN accepted requests of each other) gets
\* 401 whether the first one is still in flight or not, and is not metered:
\* _request_start runs at most once per request and never for the rejected one.
C9_IdenticalEnvelopeOnce ==
    /\ [][\A r \in Requests, a \in HandlerAuthDatas, w \in Workloads :
            ( /\ HandleRequest(r, a, w)
              /\ \E q \in Requests \ {r} : Authenticated(q) /\ auth_data[q] = a
              /\ Cardinality({q \in Requests : Authenticated(q)}) <= MSG_HISTORY_LEN )
            => ( /\ status'[r] = 401
                 /\ fpc'[r] = "none"
                 /\ model_metrics' = model_metrics )]_vars
    /\ [](\A r \in Requests :
            /\ StartCount(r) <= 1
            /\ status[r] = 401 => hook_log[r] = <<>>)

\* the second of two validly signed identical envelopes was rejected while
\* the first request is in flight, and one workload has been received
C9_Witness ==
    \E r1, r2 \in Requests :
        /\ Authenticated(r1)
        /\ hpc[r1] = "waiting"
        /\ hook_log[r1] = <<"start">>
        /\ auth_outcome[r2] = [why |-> "replay", signed |-> TRUE]
        /\ status[r2] = 401
        /\ model_metrics.workload_received = workload[r1]

\* C10: a request that authentication rejects returns 401 in the same step,
\* with Metrics and the semaphore untouched and no task created, and no hook
\* or task ever runs for it afterwards.
C10_AuthRejectedNotMetered ==
    /\ [][\A r \in Requests :
            (hpc[r] = "new" /\ auth_outcome'[r].why \in Rejections)
            => ( /\ status'[r] = 401
                 /\ hpc'[r] = "returned"
                 /\ fpc'[r] = "none"
                 /\ cpc'[r] = "none"
                 /\ UNCHANGED <<metrics_vars, sem_vars>> )]_vars
    /\ [](\A r \in Requests :
            status[r] = 401 => (hook_log[r] = <<>> /\ fpc[r] = "none" /\ cpc[r] = "none"))

\* a stale request is rejected while another request holds the gate
C10_Witness ==
    \E r, q \in Requests :
        /\ status[r] = 401
        /\ auth_outcome[r].why = "stale"
        /\ fpc[q] = "posting"
        /\ ~allow_parallel_requests
        /\ sem_value = 0
        /\ model_metrics.workload_pending > 0

\* C11: without a public key __check_signature accepts no envelope, in any
\* state the program reaches, so that no request passes authentication, no
\* task is created for it and no hook runs.
C11_NoKeyFailsClosed ==
    PUBLIC_KEY = None =>
        /\ \A a \in AuthDatas : ~check_signature(a).accepted
        /\ reqnum = -1
        /\ msg_history = <<>>
        /\ \A r \in Requests :
              /\ ~Authenticated(r)
              /\ fpc[r] = "none"
              /\ cpc[r] = "none"
              /\ hook_log[r] = <<>>
              /\ status[r] # 200

\* a validly signed request was answered 401 for want of the key
C11_Witness ==
    /\ PUBLIC_KEY = None
    /\ \E r \in Requests :
          /\ status[r] = 401
          /\ auth_outcome[r] = [why |-> "signature", signed |-> TRUE]

\* C12: when the upstream call has failed with a transport error
\* _request_errored was called for the request (the errored hook is in its
\* log and its reqnum has left requests_working unless another hook ran), and
\* the handler answers 500.
C12_UpstreamErrorMetered ==
    \A r \in Requests :
        fpc[r] = "raised" =>
            /\ \E i \in 1..Len(hook_log[r]) : hook_log[r][i] = "errored"
            /\ hpc[r] = "returned" => status[r] = 500

\* C13: when the client disconnected while make_request had called
\* _request_start and had not returned (the cancel hook follows the start hook
\* in the request's log), the cancel hook is the only terminal hook of the
\* request, _request_end does not run, and the handler answers 500.
C13_ClientCancel ==
    \A r \in Requests :
        (Len(hook_log[r]) >= 2 /\ hook_log[r][2] = "canceled") =>
            /\ hook_log[r] = <<"start", "canceled">>
            /\ hpc[r] = "returned" => status[r] = 500

\* C14: a request whose body is not JSON or has no auth_data / payload fields
\* is answered 422, and Metrics and the replay window stay as they were.
C14_MalformedIs422 ==
    [][\A r \in Requests, body \in MalformedBodies :
          HandleMalformed(r, body) =>
              /\ status'[r] = 422
              /\ UNCHANGED <<metrics_vars, reqnum, msg_history, sem_vars>>]_vars

\* the reports with loadtime > 0 that the autoscaler received
Received == {i \in 1..Len(announcements) : announcements[i].delivered}

\* C15: the autoscaler receives exactly one report with loadtime > 0: never
\* two, and one once the model was loaded and its loading time has been taken
\* off the reports.
C15_LoadtimeAnnouncedOnce ==
    /\ Cardinality(Received) <= 1
    /\ (model_loaded_calls > 0 /\ model_loading_time = NoValue) => Received # {}

C17_BenchmarkFileReused ==
    /\ [](tpc.at = "bench" => benchmark_file = NoFile)
    /\ [](tpc.at = "warmup" => benchmark_file # NoFile /\ api_calls = 1)
    /\ [][benchmark_file # NoFile => benchmark_file' = benchmark_file]_vars
    /\ [][(tpc.at = "warmup" /\ model_loaded_calls' = model_loaded_calls + 1)
            => ( /\ api_calls' = 1
                 /\ model_metrics'.max_throughput = float(benchmark_file) )]_vars

\* the instance started with a benchmark file holding 2: one call was made
\* and _model_loaded got 2
C17_Witness ==
    /\ benchmark_file = str(2)
    /\ benchmark_invocations = 1
    /\ api_calls = 1
    /\ model_loaded_calls = 1
    /\ model_metrics.max_throughput = 2
    /\ tpc.at = "tailing"

\* C18: run_benchmark is invoked at most once and _model_loaded is called at
\* most once, whatever the log holds.
C18_BenchmarkOnce == benchmark_invocations <= 1 /\ model_loaded_calls <= 1

\* C19: once _model_errored was called no benchmark is started, _model_loaded
\* is not called, and max_throughput and model_loading_time are not set.
C19_ErroredIsTerminal ==
    [][model_errored_called =>
          /\ benchmark_invocations' = benchmark_invocations
          /\ model_loaded_calls' = model_loaded_calls
          /\ model_metrics'.max_throughput = model_metrics.max_throughput
          /\ model_loading_time' \in {model_loading_time, NoValue}]_vars

C21_BenchmarkFailureTranslated ==
    /\ [](tpc.at # "dead")
    /\ [][tpc.at \in {"warmup", "bench"} /\ tpc'.at = "tailing"
            /\ model_loaded_calls' = model_loaded_calls
          => model_errored_called']_vars

\* an iteration of the reporter loop that sent a report
Reported ==
    \E elapsed \in Elapsed, raises \in Raises :
        SendMetricsLoop(elapsed, raises) /\ last_tick'.sent

\* C22 as stated: right after each report the four workload counters are 0
\* and requests_working is empty.
C22_CountersAndWorkingReset ==
    [][Reported =>
          /\ model_metrics'.workload_received = 0
          /\ model_metrics'.workload_served = 0
          /\ model_metrics'.workload_cancelled = 0
          /\ model_metrics'.workload_errored = 0
          /\ model_metrics'.requests_working = {}]_vars

\* C22: right after each report, delivered or not, workload_received,
\* workload_served, workload_cancelled and workload_errored are 0, and
\* requests_working is what it was before the report.
C22_CountersReset ==
    [][Reported =>
          /\ model_metrics'.workload_received = 0
          /\ model_metrics'.workload_served = 0
          /\ model_metrics'.workload_cancelled = 0
          /\ model_metrics'.workload_errored = 0
          /\ model_metrics'.requests_working = model_metrics.requests_working]_vars

\* a report was sent while the request was with the model server: the
\* counters are 0 again and the request is still in requests_working
C22_Witness ==
    /\ last_tick.sent
    /\ last_tick.data[1].workload_processing = 2
    /\ fpc[1] = "posting"
    /\ model_metrics.workload_received = 0
    /\ model_metrics.workload_pending = 2
    /\ model_metrics.requests_working = {1}

ReportFailed == Reported /\ \A i \in 1..Len(last_tick'.posts) : ~last_tick'.posts[i]

\* C24: a report makes one to three posts and none after a post that
\* succeeded. When all of them fail the report ends like any other:
\* update_pending is cleared, the four counters are reset,
\* last_metric_update is the time of this report (so the next iteration may
\* again compute an elapsed below ten seconds), and the loop goes on to its
\* next iteration.
C24_FailureSwallowed ==
    /\ [](last_tick.sent =>
            /\ Len(last_tick.posts) \in 1..3
            /\ \A i \in 1..(Len(last_tick.posts) - 1) : ~last_tick.posts[i])
    /\ [][ReportFailed =>
             /\ Len(last_tick'.posts) = 3
             /\ update_pending' = FALSE
             /\ model_metrics'.workload_received = 0
             /\ model_metrics'.workload_served = 0
             /\ model_metrics'.workload_cancelled = 0
             /\ model_metrics'.workload_errored = 0
             /\ NextElapsed' = Elapsed]_vars
    /\ [](ENABLED (\E elapsed \in Elapsed, raises \in Raises :
                      SendMetricsLoop(elapsed, raises)))

\* the request was served, which set update_pending; the next iteration,
\* nine seconds after the last report, sent a report for that reason alone,
\* its three posts failed, and update_pending and the counters are cleared
C24_Witness ==
    /\ hook_log[1] = <<"start", "end">>
    /\ last_tick.sent
    /\ last_tick.elapsed = 9
    /\ last_tick.posts = <<FALSE, FALSE, FALSE>>
    /\ model_is_loaded
    /\ ~update_pending
    /\ model_metrics.workload_served = 0

\* an iteration of the reporter loop
Iteration == \E elapsed \in Elapsed, raises \in Raises : SendMetricsLoop(elapsed, raises)

\* C25: an iteration of the reporter loop sends a report exactly when the
\* model is not loaded and elapsed >= 10, or update_pending, or elapsed > 10;
\* an iteration that sends none changes no field of the metrics. elapsed is
\* counted from the last report: it grows from one iteration to the next
\* until a report is sent.
C25_SendCondition ==
    /\ [][Iteration =>
             /\ last_tick'.sent <=>
                    \/ (~model_is_loaded /\ last_tick'.elapsed >= 10)
                    \/ update_pending
                    \/ last_tick'.elapsed > 10
             /\ ~last_tick'.sent =>
                    /\ last_tick'.posts = <<>>
                    /\ UNCHANGED <<metrics_vars, model_loading_time, announcements,
                                   pending_at_reset>>
             /\ (last_tick # NoTick /\ ~last_tick.sent) =>
                    last_tick'.elapsed > last_tick.elapsed]_vars

\* the model is marked loaded, a request is with the model server, no update
\* is pending, and the iteration at exactly ten seconds sent nothing: the
\* counters of the request are untouched
C25_Witness ==
    /\ last_tick # NoTick
    /\ ~last_tick.sent
    /\ last_tick.elapsed = 10
    /\ model_is_loaded
    /\ ~update_pending
    /\ fpc[1] = "posting"
    /\ model_metrics.workload_received = 2

\* C26: with allow_parallel_requests the semaphore is neither acquired nor
\* released: no request waits for it and its value stays 1.
C26_ParallelBypassesGate ==
    allow_parallel_requests => (sem_value = 1 /\ sem_waiters = <<>>)

\* C27: the snapshot a report sends is computed from the very counters its
\* reset erases, and no request hook takes effect in that step: the hooks
\* called so far, workload_pending and the request sets are the same before
\* the snapshot and after the reset.
C27_SnapshotResetAtomic ==
    [][Reported =>
          /\ last_tick'.data[1].workload_processing =
                 Max(model_metrics.workload_received - model_metrics.workload_cancelled, 0)
          /\ last_tick'.data[1].num_requests_working =
                 Cardinality(model_metrics.requests_working)
          /\ last_tick'.data[1].num_requests_recieved =
                 Cardinality(model_metrics.requests_recieved)
          /\ last_tick'.data[1].cur_perf = model_metrics.cur_perf
          /\ hook_log' = hook_log
          /\ model_metrics'.workload_pending = model_metrics.workload_pending
          /\ model_metrics'.requests_working = model_metrics.requests_working
          /\ model_metrics'.requests_recieved = model_metrics.requests_recieved]_vars

\* the report went out while the request was in flight and carried its
\* workload; the request ended after the reset, and what _request_end added
\* is there for the next report
C27_Witness ==
    /\ last_tick.sent
    /\ last_tick.data[1].workload_processing = 1
    /\ last_tick.data[1].num_requests_working = 1
    /\ hook_log[1] = <<"start", "end">>
    /\ model_metrics.workload_received = 0
    /\ model_metrics.workload_served = 1
    /\ model_metrics.workload_pending = 0
    /\ update_pending

BenchmarkReturned == tpc.at = "bench" /\ model_loaded_calls' = model_loaded_calls + 1

C30_ConnectFailureErrored ==
    /\ [][BenchmarkConnectError =>
             /\ model_errored_called'
             /\ model_metrics'.error_msg \in {ConnectErrorMsg} \cup ErrorMsgs
             /\ model_is_loaded'
             /\ model_loaded_calls' = model_loaded_calls
             /\ benchmark_file' = benchmark_file]_vars
    /\ [][model_metrics.error_msg = ConnectErrorMsg =>
             /\ benchmark_invocations' = benchmark_invocations
             /\ model_loaded_calls' = model_loaded_calls]_vars

\* the ModelError rules a line matches, as indices into log_actions
ErrorRules(line) ==
    {i \in 1..Len(log_actions) :
        log_actions[i].action = "ModelError" /\ log_actions[i].msg \in line}

\* handle_log_line returned in this step, on the line tpc' holds
LineHandled == tpc.at \in {"tailing", "warmup", "bench"} /\ tpc'.at = "tailing"

\* C31: when handle_log_line has finished a line that matches a ModelError
\* rule, _model_errored was called and error_msg is the message of the first
\* such rule in log_actions: no later rule was evaluated for the line.
C31_FirstErrorRuleWins ==
    [][(LineHandled /\ ErrorRules(tpc'.line) # {}) =>
          /\ model_errored_called'
          /\ model_is_loaded'
          /\ \E i \in ErrorRules(tpc'.line) :
                /\ \A j \in ErrorRules(tpc'.line) : i <= j
                /\ model_metrics'.error_msg = log_actions[i].msg]_vars

\* the line just handled matches both ModelError rules: error_msg is the
\* message of the first
C31_Witness ==
    /\ tpc.at = "tailing"
    /\ tpc.line = {"Exception loading model", "Model file not found"}
    /\ model_errored_called
    /\ model_metrics.error_msg = "Exception loading model"

\* C32: the hooks of a request begin with _request_start: _request_end,
\* _request_errored and _request_canceled are called after it, and the
\* Cancel-watch of a request waits for the disconnection only once its
\* Forward task has called _request_start.
C32_HooksAfterStart ==
    \A r \in Requests :
        /\ hook_log[r] # <<>> => hook_log[r][1] = "start"
        /\ cpc[r] \in {"watching", "returned500"} => StartCount(r) = 1

\* request 1 waits for the semaphore that request 2 holds, and its client
\* has gone: _request_canceled came after its _request_start
C32_Witness ==
    /\ fpc[1] = "acquiring"
    /\ fpc[2] = "posting"
    /\ cpc[1] = "returned500"
    /\ hook_log[1] = <<"start", "canceled">>
    /\ hook_log[2] = <<"start">>

\* C33: msg_history never holds more than MSG_HISTORY_LEN messages. An
\* accepted call appends its message, and when the history was full the
\* oldest entry leaves; a rejected call leaves the history as it was.
C33_HistoryBounded ==
    /\ [](Len(msg_history) <= MSG_HISTORY_LEN)
    /\ [][\A a \in AuthDatas : Verify(a) =>
             IF verify_call'.accepted
             THEN IF Len(msg_history) < MSG_HISTORY_LEN
                  THEN msg_history' = Append(msg_history, MessageOf(a))
                  ELSE msg_history' = Append(Tail(msg_history), MessageOf(a))
             ELSE msg_history' = msg_history]_vars

\* the history is full and the message that set the highest reqnum is no
\* longer in it: it was evicted by the messages accepted after it
C33_Witness ==
    /\ verify_call.accepted
    /\ Len(msg_history) = MSG_HISTORY_LEN
    /\ msg_history[Len(msg_history)] = MessageOf(verify_call.auth_data)
    /\ \A i \in 1..Len(msg_history) : msg_history[i].reqnum < reqnum

\* C34: a message that __check_signature accepted is not accepted again,
\* however many other messages were accepted since and in whatever order the
\* reqnums came. (Stated for the message Probe.)
C34_NeverAcceptedTwice ==
    [][\A a \in AuthDatas :
          (Verify(a) /\ MessageOf(a) = Probe /\ verify_call.probe_accepted)
          => ~verify_call'.accepted]_vars

\* the requests in flight: _request_start was called and the handler has not
\* returned
InFlight == {r \in Requests : StartCount(r) = 1 /\ hpc[r] # "returned"}

\* the requests in flight whose terminal hook has not run yet
Unmetered == {r \in InFlight : TerminalCount(r) = 0}

\* the sum of the workloads of the requests of S
RECURSIVE WorkloadOf(_)
WorkloadOf(S) ==
    IF S = {} THEN 0
    ELSE LET r == CHOOSE x \in S : TRUE IN workload[r] + WorkloadOf(S \ {r})

\* C35: workload_pending is the sum of the workloads of the requests in
\* flight. (Stated for the states in which no request is between its terminal
\* hook and the return of its handler: in particular workload_pending is 0
\* when no request is in flight.)
C35_PendingIsInFlightWorkload ==
    InFlight = Unmetered => model_metrics.workload_pending = WorkloadOf(InFlight)

\* C36: requests_working is the set of the reqnums of the requests in flight
\* and has as many members as there are requests in flight, so that
\* num_requests_working in a report is their number. (Stated for the states in
\* which no request is between its terminal hook and the return of its
\* handler.)
C36_WorkingIsInFlight ==
    InFlight = Unmetered =>
        /\ model_metrics.requests_working = {auth_data[r].reqnum : r \in InFlight}
        /\ compute_autoscaler_data.num_requests_working = Cardinality(InFlight)

\* C37: a call of __check_signature that rejects (stale reqnum, replay,
\* signature that does not verify, no public key) leaves Backend.reqnum and
\* msg_history as they were: the highest reqnum, below which messages are
\* stale, is not raised by a message that was not accepted.
C37_RejectLeavesWindow ==
    [][\A a \in AuthDatas :
          (Verify(a) /\ ~verify_call'.accepted)
          => ( /\ verify_call'.why \in Rejections
               /\ reqnum' = reqnum
               /\ msg_history' = msg_history )]_vars

\* an envelope with the largest reqnum and a signature that does not verify
\* was rejected on an instance that has its key and has accepted messages; the
\* highest reqnum is still below it
C37_Witness ==
    /\ PUBLIC_KEY # None
    /\ verify_call.why = "signature"
    /\ ~ValidlySigned(verify_call.auth_data)
    /\ verify_call.auth_data.reqnum = MaxReqnum
    /\ msg_history # <<>>
    /\ reqnum = 0

\* C38: requests_working is a subset of requests_recieved, and no step (hook,
\* report, model_errored) takes a reqnum off requests_recieved.
C38_WorkingWithinRecieved ==
    /\ [](model_metrics.requests_working \subseteq model_metrics.requests_recieved)
    /\ [][model_metrics.requests_recieved \subseteq model_metrics'.requests_recieved]_vars

\* after a report and model_errored: one request was cancelled, the other is
\* being forwarded, both are in requests_recieved
C38_Witness ==
    /\ model_metrics.error_msg # None
    /\ announcements = <<>>
    /\ model_metrics.workload_received = 0
    /\ model_metrics.requests_recieved = Requests
    /\ Cardinality(model_metrics.requests_working) = 1
    /\ \E r \in Requests : hook_log[r] = <<"start", "canceled">> /\ hpc[r] = "returned"

\* handle_log_line is suspended in the sleep or in the benchmark that a
\* ModelLoaded line started
BenchmarkInProgress == tpc.at \in {"sleeping", "warmup", "bench"}

\* C39: log lines are handled one at a time: a line is read only when the
\* line before it has been handled to its end, and while the wait and the
\* benchmark of a ModelLoaded line are in progress no line is read and no
\* ModelError rule takes effect; the rules of a line read afterwards act on
\* what the benchmark's model_loaded or model_errored has left.
C39_OneLineAtATime ==
    [][ /\ lines_read' \in {lines_read, lines_read + 1}
        /\ lines_read' # lines_read => tpc.at = "tailing"
        /\ BenchmarkInProgress =>
              /\ lines_read' = lines_read
              /\ tpc'.line \in {tpc.line, {}}
              /\ (BenchmarkInProgress' \/ tpc'.at = "dead") =>
                    /\ model_metrics'.error_msg = model_metrics.error_msg
                    /\ model_errored_called' = model_errored_called ]_vars

\* the first line started the benchmark, which ended with model_loaded; the
\* second line, handled after it, matched a ModelError rule
C39_Witness ==
    /\ tpc.at = "tailing"
    /\ lines_read = 2
    /\ tpc.line = {"Exception loading model"}
    /\ benchmark_invocations = 1
    /\ model_loaded_calls = 1
    /\ model_metrics.max_throughput > 0
    /\ model_metrics.error_msg = "Exception loading model"

\* hook h runs for request r in this step
HookRuns(r, h) == hook_log'[r] = Append(hook_log[r], h)

\* C40: _request_end sets update_pending; the iteration of the reporter loop
\* that finds update_pending set sends a report, whatever the elapsed time,
\* and leaves it false; that iteration comes. _request_errored and
\* _request_canceled leave update_pending as it is, and an iteration that
\* finds it false less than ten seconds after the last report sends nothing.
C40_UpdatePendingTriggersReport ==
    /\ [][\A r \in Requests :
            /\ HookRuns(r, "end") => update_pending'
            /\ (HookRuns(r, "errored") \/ HookRuns(r, "canceled")) =>
                  update_pending' = update_pending]_vars
    /\ [][Iteration =>
            /\ update_pending => (last_tick'.sent /\ ~update_pending')
            /\ (~update_pending /\ last_tick'.elapsed < 10) => ~last_tick'.sent]_vars
    /\ (update_pending ~> (last_tick.sent /\ ~update_pending))

\* the request was served nine seconds or less after a report; the next
\* iteration, nine seconds after that report, has sent the report that
\* _request_end asked for
C40_Witness ==
    /\ hook_log[1] = <<"start", "end">>
    /\ model_is_loaded
    /\ last_tick.sent
    /\ last_tick.elapsed = 9
    /\ last_tick.data[1].cur_perf > 0
    /\ ~update_pending

====
